---- MODULE Spec2Model ----
(***************************************************************************)
(* SRRI update checker: the monitoring transformer                         *)
(* (logic/srri_monitoring_transformation.py), the permalink extractor      *)
(* (logic/permalink_transformation.py) and the reconciler                  *)
(* (logic/compare_and_export.py).                                          *)
(*                                                                         *)
(* Text is modelled by TLA+ strings, on which TLC evaluates Len, SubSeq    *)
(* and \o.  A table cell is a record [t, v]: t is the kind of the value    *)
(* ("num", "str", "bool", "nan") and v the value; NaN is [t |-> "nan"].    *)
(***************************************************************************)
EXTENDS Integers, Sequences, FiniteSets, TLC

VARIABLES
    pc,               \* position of the caller: which call has run
    share_class,      \* argument of generate_identifier / clean_identifier
    currency,         \* argument of generate_identifier
    identifier,       \* result of the first application
    identifier2,      \* result of applying the same function to identifier
    file_monitoring,  \* the uploaded monitoring spreadsheet
    df_monitoring,    \* the table process_monitoring_file returns
    monitoring_csv,   \* output/srri_monitoring_tsfm.csv
    monitoring_df,    \* the caller's monitoring table given to compare_srri_values
    permalink_df,     \* the caller's permalink table given to compare_srri_values
    result_df,        \* the table compare_srri_values returns
    updates_csv,      \* output/srri_updates_needed.csv
    error,            \* the ValueError compare_srri_values raised
    manifest,         \* the lines of the uploaded permalink manifest
    web,              \* what each KIID link serves
    df_permalink,     \* the table process_and_extract_permalink_file returns
    permalink_csv,    \* output/permalink_tsfm.csv
    response,         \* what the link given to extract_srri_and_fee serves
    srri_value        \* the KIID_SRRI extract_srri_and_fee returns

identVars == <<share_class, currency, identifier, identifier2>>
monVars == <<file_monitoring, df_monitoring, monitoring_csv>>
cmpVars == <<monitoring_df, permalink_df, result_df, updates_csv, error>>
permVars == <<manifest, web, df_permalink, permalink_csv>>
extractVars == <<response, srri_value>>
vars == <<pc, identVars, monVars, cmpVars, permVars, extractVars>>

(***************************************************************************)
(* Table cells                                                             *)
(***************************************************************************)
NaN == [t |-> "nan", v |-> 0]
None == [t |-> "none", v |-> 0]
Num(n) == [t |-> "num", v |-> n]
Str(s) == [t |-> "str", v |-> s]
Bool(b) == [t |-> "bool", v |-> b]

\* pd.isna / pd.notna
isna(c) == c.t \in {"nan", "none"}
notna(c) == ~isna(c)

NoFile == [weeks |-> <<>>, rows |-> <<>>]
NoTable == [columns |-> <<>>, rows |-> <<>>]
NoError == [file |-> "", columns |-> {}]

(***************************************************************************)
(* Python str operations                                                   *)
(***************************************************************************)
LowerAlpha == "abcdefghijklmnopqrstuvwxyz"
UpperAlpha == "ABCDEFGHIJKLMNOPQRSTUVWXYZ"

Char(s, i) == SubSeq(s, i, i)

RECURSIVE Pos(_, _, _)
\* index of character ch in alphabet at or after i, 0 when absent
Pos(ch, alphabet, i) ==
    IF i > Len(alphabet) THEN 0
    ELSE IF Char(alphabet, i) = ch THEN i
    ELSE Pos(ch, alphabet, i + 1)

LowerLetters == {Char(LowerAlpha, i) : i \in 1..Len(LowerAlpha)}
UpperLetters == {Char(UpperAlpha, i) : i \in 1..Len(UpperAlpha)}

\* the lower-case letter of every upper-case letter, and the converse
ToLower == [c \in UpperLetters |-> Char(LowerAlpha, Pos(c, UpperAlpha, 1))]
ToUpper == [c \in LowerLetters |-> Char(UpperAlpha, Pos(c, LowerAlpha, 1))]

IsLower(ch) == ch \in LowerLetters

IsSpace(ch) == ch = " "

RECURSIVE lower(_)
\* str.lower()
lower(s) ==
    IF s = "" THEN ""
    ELSE (IF Char(s, 1) \in UpperLetters THEN ToLower[Char(s, 1)] ELSE Char(s, 1))
            \o lower(SubSeq(s, 2, Len(s)))

RECURSIVE upper(_)
\* str.upper()
upper(s) ==
    IF s = "" THEN ""
    ELSE (IF Char(s, 1) \in LowerLetters THEN ToUpper[Char(s, 1)] ELSE Char(s, 1))
            \o upper(SubSeq(s, 2, Len(s)))

\* does pat occur in s starting at index i
MatchAt(s, pat, i) ==
    /\ i >= 1
    /\ i + Len(pat) - 1 <= Len(s)
    /\ SubSeq(s, i, i + Len(pat) - 1) = pat

startswith(s, pat) == MatchAt(s, pat, 1)

endswith(s, pat) == MatchAt(s, pat, Len(s) - Len(pat) + 1)

RECURSIVE replace(_, _, _)
\* str.replace(pat, rep): leftmost non-overlapping occurrences
replace(s, pat, rep) ==
    IF pat = "" \/ s = "" THEN s
    ELSE IF MatchAt(s, pat, 1)
         THEN rep \o replace(SubSeq(s, Len(pat) + 1, Len(s)), pat, rep)
         ELSE Char(s, 1) \o replace(SubSeq(s, 2, Len(s)), pat, rep)

RECURSIVE strip(_)
\* str.strip()
strip(s) ==
    IF s = "" THEN ""
    ELSE IF IsSpace(Char(s, 1)) THEN strip(SubSeq(s, 2, Len(s)))
    ELSE IF IsSpace(Char(s, Len(s))) THEN strip(SubSeq(s, 1, Len(s) - 1))
    ELSE s

\* number of positions at which pat occurs in s
CountOccurrences(s, pat) ==
    Cardinality({i \in 1..Len(s) : MatchAt(s, pat, i)})

contains(s, pat) == \E i \in 1..Len(s) : MatchAt(s, pat, i)

RECURSIVE SkipSpaces(_, _)
\* first index at or after i that is not whitespace (the end of \s*)
SkipSpaces(s, i) ==
    IF i <= Len(s) /\ IsSpace(Char(s, i)) THEN SkipSpaces(s, i + 1) ELSE i

(***************************************************************************)
(* The regular expressions of the identifier derivations                   *)
(***************************************************************************)
Glyphs == {"®", "¬", "Æ"}

RECURSIVE re_sub_glyphs(_)
\* re.sub(r'[®¬Æ]', '', name)
re_sub_glyphs(s) ==
    IF s = "" THEN ""
    ELSE (IF Char(s, 1) \in Glyphs THEN "" ELSE Char(s, 1))
            \o re_sub_glyphs(SubSeq(s, 2, Len(s)))

RECURSIVE re_sub_non_letters(_)
\* re.sub(r'[^a-z]', '', name)
re_sub_non_letters(s) ==
    IF s = "" THEN ""
    ELSE (IF IsLower(Char(s, 1)) THEN Char(s, 1) ELSE "")
            \o re_sub_non_letters(SubSeq(s, 2, Len(s)))

\* end (exclusive) of a match of ucits\s+etf at i, 0 when there is none
MatchUcitsEtf(s, i) ==
    IF ~MatchAt(s, "ucits", i) THEN 0
    ELSE LET j == SkipSpaces(s, i + 5)
         IN IF j > i + 5 /\ MatchAt(s, "etf", j) THEN j + 3 ELSE 0

RECURSIVE re_sub_ucits_etf(_)
\* re.sub(r'ucits\s+etf', '', name, flags=re.IGNORECASE) on a lowercased name
re_sub_ucits_etf(s) ==
    IF s = "" THEN ""
    ELSE LET e == MatchUcitsEtf(s, 1)
         IN IF e > 0 THEN re_sub_ucits_etf(SubSeq(s, e, Len(s)))
            ELSE Char(s, 1) \o re_sub_ucits_etf(SubSeq(s, 2, Len(s)))

\* end (exclusive) of a match of (ucits|ucts)(\s*etf)? at i, 0 when none
MatchUcitsOptEtf(s, i) ==
    LET w == IF MatchAt(s, "ucits", i) THEN 5
             ELSE IF MatchAt(s, "ucts", i) THEN 4 ELSE 0
        j == SkipSpaces(s, i + w)
    IN IF w = 0 THEN 0
       ELSE IF MatchAt(s, "etf", j) THEN j + 3 ELSE i + w

RECURSIVE re_sub_ucits_opt_etf(_)
\* re.sub(r'(ucits|ucts)(\s*etf)?', '', name, flags=re.IGNORECASE)
re_sub_ucits_opt_etf(s) ==
    IF s = "" THEN ""
    ELSE LET e == MatchUcitsOptEtf(s, 1)
         IN IF e > 0 THEN re_sub_ucits_opt_etf(SubSeq(s, e, Len(s)))
            ELSE Char(s, 1) \o re_sub_ucits_opt_etf(SubSeq(s, 2, Len(s)))

\* does ([a-z]{3})\s*\(hedged\) match at i
MatchHedgedAt(s, i) ==
    /\ i + 2 <= Len(s)
    /\ \A k \in i..(i + 2) : IsLower(Char(s, k))
    /\ MatchAt(s, "(hedged)", SkipSpaces(s, i + 3))

\* re.search(r'([a-z]{3})\s*\(hedged\)', name): group 1 of the leftmost
\* match followed by 'hedged', "" when there is no match
hedged_suffix_of(s) ==
    LET hits == {i \in 1..Len(s) : MatchHedgedAt(s, i)}
    IN IF hits = {} THEN ""
       ELSE LET i == CHOOSE h \in hits : \A g \in hits : h <= g
            IN SubSeq(s, i, i + 2) \o "hedged"

(***************************************************************************)
(* Identifier derivation, monitoring side                                  *)
(***************************************************************************)
\* the name after the noise tokens are stripped (lines 111-113)
MonitoringCleanName(sc) ==
    replace(replace(re_sub_glyphs(re_sub_ucits_etf(lower(sc))), "class ", ""),
            "accu", "acc")

generate_identifier(sc, cur) ==
    LET name == MonitoringCleanName(sc)
        hedged_suffix == hedged_suffix_of(name)
        letters == re_sub_non_letters(name)
    IN replace(letters, lower(cur), "") \o lower(cur) \o hedged_suffix

(***************************************************************************)
(* Identifier derivation, permalink side                                   *)
(***************************************************************************)
\* a plausible slip: the vendor prefix is never inserted
clean_identifier_no_prefix(name) ==
    LET n == re_sub_non_letters(
                 replace(replace(re_sub_glyphs(re_sub_ucits_opt_etf(lower(name))),
                                 "class ", ""), "accu", "acc"))
    IN n \o hedged_suffix_of(lower(name))

clean_identifier(name) ==
    LET original == name
        n1 == re_sub_ucits_opt_etf(lower(name))
        n2 == replace(replace(re_sub_glyphs(n1), "class ", ""), "accu", "acc")
        n3 == re_sub_non_letters(n2)
        n4 == n3 \o hedged_suffix_of(lower(original))
    IN IF ~startswith(lower(original), "first trust")
       THEN "firsttrust" \o n4
       ELSE n4

(***************************************************************************)
(* Inputs of the identifier derivations: share-class names are built from  *)
(* the words that real share-class names are made of.                      *)
(***************************************************************************)
MaxTokens == 3

NameTokens ==
    {"Class ", "A ", "USD ", "Acc", "Accu", "US ", "Dist", "EUR (Hedged)",
     "UCITS ETF ", "First Trust ", "®"}

Currencies == {"USD", "EUR"}

RECURSIVE Concat(_)
Concat(toks) == IF toks = <<>> THEN "" ELSE Head(toks) \o Concat(Tail(toks))

ShareClassNames ==
    {Concat(toks) : toks \in UNION {[1..n -> NameTokens] : n \in 0..MaxTokens}}

MonIdle ==
    /\ file_monitoring = NoFile
    /\ df_monitoring = <<>>
    /\ monitoring_csv = <<>>

CmpIdle ==
    /\ monitoring_df = NoTable
    /\ permalink_df = NoTable
    /\ result_df = NoTable
    /\ updates_csv = NoTable
    /\ error = NoError

PermIdle ==
    /\ manifest = <<>>
    /\ web = <<>>
    /\ df_permalink = <<>>
    /\ permalink_csv = <<>>

ExtractIdle ==
    /\ response = [ok |-> FALSE, text |-> "", full_text |-> ""]
    /\ srri_value = None

IdentIdle ==
    /\ share_class = ""
    /\ currency = ""
    /\ identifier = ""
    /\ identifier2 = ""

InitIdent ==
    /\ pc = "start"
    /\ ExtractIdle
    /\ MonIdle
    /\ CmpIdle
    /\ PermIdle
    /\ share_class \in ShareClassNames
    /\ currency \in Currencies
    /\ identifier = ""
    /\ identifier2 = ""

\* df.apply(lambda row: generate_identifier(...)) on one row, and the
\* function applied once more to its own result
GenerateIdentifier ==
    /\ pc = "start"
    /\ pc' = "generated"
    /\ identifier' = generate_identifier(share_class, currency)
    /\ identifier2' = generate_identifier(identifier', currency)
    /\ UNCHANGED <<share_class, currency, monVars, cmpVars, permVars, extractVars>>

\* merged_df["Share Class"].apply(clean_identifier) on one row, and the
\* function applied once more to its own result
CleanIdentifier ==
    /\ pc = "start"
    /\ pc' = "cleaned"
    /\ identifier' = clean_identifier(share_class)
    /\ identifier2' = clean_identifier(identifier')
    /\ UNCHANGED <<share_class, currency, monVars, cmpVars, permVars, extractVars>>

NextIdent == GenerateIdentifier \/ CleanIdentifier

SpecIdent == InitIdent /\ [][NextIdent]_vars

(***************************************************************************)
(* Conversions of the monitoring transformer                               *)
(***************************************************************************)
Digits == "0123456789"

DigitChars == {Char(Digits, i) : i \in 1..Len(Digits)}

IsDigit(ch) == ch \in DigitChars

IsDigits(s) == s # "" /\ \A i \in 1..Len(s) : IsDigit(Char(s, i))

RECURSIVE ParseInt(_)
\* the integer a string of digits denotes
ParseInt(s) ==
    IF s = "" THEN 0
    ELSE 10 * ParseInt(SubSeq(s, 1, Len(s) - 1))
            + (Pos(Char(s, Len(s)), Digits, 1) - 1)

\* Series.astype(str) on one cell
astype_str(c) ==
    CASE c.t = "num" -> ToString(c.v)
      [] c.t = "str" -> c.v
      [] c.t = "bool" -> IF c.v THEN "True" ELSE "False"
      [] c.t = "nan" -> "nan"
      [] c.t = "none" -> "None"

\* pd.to_numeric(errors="coerce") on one cell
to_numeric(c) ==
    CASE c.t = "num" -> c
      [] c.t = "str" -> IF IsDigits(c.v) THEN Num(ParseInt(c.v)) ELSE NaN
      [] c.t = "bool" -> Num(IF c.v THEN 1 ELSE 0)
      [] OTHER -> NaN

\* pd.to_datetime(dayfirst=True, errors="coerce") followed by
\* .dt.strftime("%Y-%m-%d") on one cell: a DD/MM/YYYY text becomes
\* YYYY-MM-DD (month first when the text is no day-first date), an ISO text
\* stays, anything else is NaT and formats as NaN
to_datetime_strftime(c) ==
    IF c.t # "str" THEN NaN
    ELSE LET s == c.v
             a == SubSeq(s, 1, 2)
             b == SubSeq(s, 4, 5)
             y == SubSeq(s, 7, 10)
         IN IF /\ Len(s) = 10
               /\ Char(s, 3) = "/" /\ Char(s, 6) = "/"
               /\ IsDigits(a) /\ IsDigits(b) /\ IsDigits(y)
            THEN IF ParseInt(b) \in 1..12 /\ ParseInt(a) \in 1..31
                 THEN Str(y \o "-" \o b \o "-" \o a)
                 ELSE IF ParseInt(a) \in 1..12 /\ ParseInt(b) \in 1..31
                 THEN Str(y \o "-" \o a \o "-" \o b)
                 ELSE NaN
            ELSE IF /\ Len(s) = 10
                    /\ Char(s, 5) = "-" /\ Char(s, 8) = "-"
                    /\ IsDigits(SubSeq(s, 1, 4)) /\ IsDigits(SubSeq(s, 6, 7))
                    /\ IsDigits(SubSeq(s, 9, 10))
                    /\ ParseInt(SubSeq(s, 6, 7)) \in 1..12
                    /\ ParseInt(SubSeq(s, 9, 10)) \in 1..31
            THEN c
            ELSE NaN

\* code-point order of the characters that occur in the sorted column
CodePoints == " -/0123456789ABCDEFGHIJKLMNOPQRSTUVWXYZ_abcdefghijklmnopqrstuvwxyz"

Ord(ch) == Pos(ch, CodePoints, 1)

RECURSIVE str_lt(_, _)
\* Python's a < b on str
str_lt(a, b) ==
    IF b = "" THEN FALSE
    ELSE IF a = "" THEN TRUE
    ELSE IF Char(a, 1) = Char(b, 1)
         THEN str_lt(SubSeq(a, 2, Len(a)), SubSeq(b, 2, Len(b)))
         ELSE Ord(Char(a, 1)) < Ord(Char(b, 1))

(***************************************************************************)
(* process_monitoring_file                                                 *)
(***************************************************************************)
MinHistory == 16
Window == 16

\* STEP 2-5: the SRRI result columns, in the column order of the sheet
srri_columns(file) ==
    [i \in 1..Len(file.weeks) |->
        "SRRI Result (Week " \o ToString(file.weeks[i]) \o ")"]

\* a plausible slip: count() of all cells instead of the non-missing ones
Valid_SRRI_Count_all(row) == Len(row.cells)

\* STEP 6: df[srri_columns].notna().sum(axis=1)
Valid_SRRI_Count(row) ==
    Cardinality({i \in 1..Len(row.cells) : notna(row.cells[i])})

RECURSIVE NonMissing(_, _)
\* the column positions of the non-missing cells at or after i, in order
NonMissing(cells, i) ==
    IF i > Len(cells) THEN <<>>
    ELSE IF notna(cells[i]) THEN <<i>> \o NonMissing(cells, i + 1)
    ELSE NonMissing(cells, i + 1)

\* row[srri_columns].dropna().astype(str).tolist()
srri_values(row) ==
    LET idx == NonMissing(row.cells, 1)
    IN [k \in 1..Len(idx) |-> astype_str(row.cells[idx[k]])]

\* row[srri_columns].dropna().index.tolist()
week_names(file, row) ==
    LET idx == NonMissing(row.cells, 1)
    IN [k \in 1..Len(idx) |-> srri_columns(file)[idx[k]]]

\* values[-n:]
LastN(values, n) ==
    IF Len(values) <= n THEN values
    ELSE SubSeq(values, Len(values) - n + 1, Len(values))

SetOf(values) == {values[i] : i \in 1..Len(values)}

\* a plausible slip: the trailing window is one value short
is_last_16_weeks_stable_short(row) ==
    LET values == LastN(srri_values(row), Window - 1)
    IN Len(values) = Window - 1 /\ Cardinality(SetOf(values)) = 1

is_last_16_weeks_stable(row) ==
    LET values == LastN(srri_values(row), Window)
    IN Len(values) = Window /\ Cardinality(SetOf(values)) = 1

has_any_16_week_stability(row) ==
    LET values == srri_values(row)
    IN \E i \in 1..(Len(values) - (Window - 1)) :
          Cardinality(SetOf(SubSeq(values, i, i + Window - 1))) = 1

\* re.search(r"Week\s*\d+", change_week).group(0), None when no match
week_label(col) ==
    LET hits == {i \in 1..Len(col) :
                    /\ MatchAt(col, "Week", i)
                    /\ SkipSpaces(col, i + 4) <= Len(col)
                    /\ IsDigit(Char(col, SkipSpaces(col, i + 4)))}
    IN IF hits = {} THEN None
       ELSE LET i == CHOOSE h \in hits : \A g \in hits : h <= g
                d == SkipSpaces(col, i + 4)
                e == CHOOSE k \in d..Len(col) :
                        /\ \A m \in d..k : IsDigit(Char(col, m))
                        /\ k = Len(col) \/ ~IsDigit(Char(col, k + 1))
            IN Str(SubSeq(col, i, e))

\* STEP 8: extract_srri_change_info
extract_srri_change_info(file, row) ==
    LET values == srri_values(row)
        names == week_names(file, row)
        n == Len(values)
        differs == {i \in 1..(n - 1) : values[i] # values[n]}
        last == CHOOSE i \in differs : \A j \in differs : j <= i
    IN IF n = 0
       THEN [previous |-> None, latest |-> None, week |-> None]
       ELSE [previous |-> IF differs = {} THEN Str(values[n])
                          ELSE Str(values[last]),
             latest |-> Str(values[n]),
             week |-> IF differs = {} THEN None
                      ELSE week_label(names[last + 1])]

\* STEP 12: summary_df[col].astype(str) for the columns of dtype object
object_to_str(c) == Str(astype_str(c))

\* STEP 6-12: the summary row of one data row of the sheet
summary_row(file, row) ==
    LET info == extract_srri_change_info(file, row)
    IN [FUND |-> object_to_str(row.fund),
        SHARE_CLASS |-> object_to_str(Str(row.share_class)),
        IDENTIFIER |-> object_to_str(
                          Str(generate_identifier(row.share_class, row.currency))),
        CURRENCY |-> object_to_str(Str(row.currency)),
        LAST_VALIDATED_DOCUMENT |->
            object_to_str(to_datetime_strftime(row.last_validated)),
        PREVIOUS_SRRI |-> to_numeric(info.previous),
        LATEST_SRRI |-> to_numeric(info.latest),
        WEEK_OF_CHANGE |-> object_to_str(info.week),
        LAST_16_WEEKS_STABLE |-> Bool(is_last_16_weeks_stable(row)),
        ANY_16_WEEKS_STABLE |-> Bool(has_any_16_week_stability(row))]

RECURSIVE SelectRows(_, _)
\* the positions of the rows at or after i that pass the history gate
SelectRows(rows, i) ==
    IF i > Len(rows) THEN <<>>
    ELSE IF Valid_SRRI_Count(rows[i]) >= MinHistory
         THEN <<i>> \o SelectRows(rows, i + 1)
         ELSE SelectRows(rows, i + 1)

\* summary_df before STEP 13
summary_df(file) ==
    LET kept == SelectRows(file.rows, 1)
    IN [k \in 1..Len(kept) |-> summary_row(file, file.rows[kept[k]])]

\* the orders sort_values("LAST_VALIDATED_DOCUMENT", ascending=False) may
\* produce: every permutation in which no row precedes a greater one
sort_orders(df) ==
    {p \in Permutations(1..Len(df)) :
        \A i, j \in 1..Len(df) :
            i < j => ~str_lt(df[p[i]].LAST_VALIDATED_DOCUMENT.v,
                             df[p[j]].LAST_VALIDATED_DOCUMENT.v)}

RECURSIVE drop_duplicates(_, _)
\* drop_duplicates(subset="IDENTIFIER", keep="first") from position i on
drop_duplicates(df, i) ==
    IF i > Len(df) THEN <<>>
    ELSE IF \E j \in 1..(i - 1) : df[j].IDENTIFIER = df[i].IDENTIFIER
         THEN drop_duplicates(df, i + 1)
         ELSE <<df[i]>> \o drop_duplicates(df, i + 1)

\* STEP 13, lines 191-192: the sorted text column is parsed and formatted again
reformat_date(r) ==
    [r EXCEPT !.LAST_VALIDATED_DOCUMENT =
        to_datetime_strftime(r.LAST_VALIDATED_DOCUMENT)]

\* process_monitoring_file for one outcome p of the sort
process_monitoring_file(file, p) ==
    CHOOSE out \in
        {[i \in 1..Len(dedup) |-> reformat_date(dedup[i])] :
            dedup \in {drop_duplicates(sorted, 1) :
                         sorted \in {[i \in 1..Len(df) |-> df[p[i]]] :
                                        df \in {summary_df(file)}}}} : TRUE

(***************************************************************************)
(* Monitoring spreadsheets: a sheet has NWeeks weekly result columns; a    *)
(* history is up to three runs of equal values with up to MaxGaps empty    *)
(* cells.                                                                  *)
(***************************************************************************)
NWeeks == 17
MaxGaps == 2
MaxRows == 2

SrriLevels == {2, 3}

WeekOrders ==
    {[i \in 1..NWeeks |-> i], [i \in 1..NWeeks |-> NWeeks + 1 - i]}

\* the weeks whose cell may be empty: the first two, a middle one, the last
\* two
GapPositions == {1, 2, NWeeks \div 2, NWeeks - 1, NWeeks}

GapSets == {g \in SUBSET GapPositions : Cardinality(g) <= MaxGaps}

RunCells(a, b, v1, v2, v3, gaps) ==
    [i \in 1..NWeeks |->
        IF i \in gaps THEN NaN
        ELSE Num(IF i <= a THEN v1 ELSE IF i <= b THEN v2 ELSE v3)]

\* the run boundaries a <= b
RunBounds == {ab \in (0..NWeeks) \X (0..NWeeks) : ab[1] <= ab[2]}

\* the other level
Other(v) == CHOOSE u \in SrriLevels : u # v

\* a run of v1, a run of the other level, a run of v3
Histories ==
    {RunCells(ab[1], ab[2], v1, Other(v1), v3, g) :
        ab \in RunBounds, v1 \in SrriLevels, v3 \in SrriLevels, g \in GapSets}

SingleRow(h) ==
    <<[fund |-> Str("F1"), share_class |-> "Class A USD Acc",
       currency |-> "USD", last_validated |-> Str("05/01/2024"),
       cells |-> h]>>

\* every history in a sheet whose weeks ascend, the gap-free histories also
\* in a sheet whose weeks descend
SingleRowFiles ==
    {[weeks |-> [i \in 1..NWeeks |-> i], rows |-> SingleRow(h)] :
        h \in Histories}
    \cup
    {[weeks |-> w,
      rows |-> SingleRow(RunCells(ab[1], ab[2], v1, Other(v1), v3, {}))] :
        w \in WeekOrders, ab \in RunBounds, v1 \in SrriLevels,
        v3 \in SrriLevels}

\* rows whose identifiers collide: a full stable history or one too short to
\* pass the gate, three spellings of two share classes, four date cells
DedupShareClasses == {"Class A", "A ", "Class B"}

DedupDates == {Str("05/01/2024"), Str("31/12/2023"), Str("n/a"), NaN}

DedupHistories ==
    {RunCells(0, 0, 3, 3, 3, {}), RunCells(0, 0, 3, 3, 3, 1..(NWeeks - 15))}

DedupRow(k, sc, d, h) ==
    [fund |-> Str("F" \o ToString(k)), share_class |-> sc, currency |-> "USD",
     last_validated |-> d, cells |-> h]

DedupRowSeqs ==
    UNION {[1..n -> DedupShareClasses \X DedupDates \X DedupHistories] :
              n \in 2..MaxRows}

DedupFiles ==
    {[weeks |-> [i \in 1..NWeeks |-> i],
      rows |-> [k \in 1..Len(q) |-> DedupRow(k, q[k][1], q[k][2], q[k][3])]] :
        q \in DedupRowSeqs}

MonitoringFiles == SingleRowFiles \cup DedupFiles

InitMon ==
    /\ pc = "start"
    /\ ExtractIdle
    /\ IdentIdle
    /\ CmpIdle
    /\ PermIdle
    /\ file_monitoring \in MonitoringFiles
    /\ df_monitoring = <<>>
    /\ monitoring_csv = <<>>

\* process_monitoring_file(file_monitoring), with its export (STEP 14)
ProcessMonitoringFile ==
    /\ pc = "start"
    /\ \E df \in {summary_df(file_monitoring)} :
          \E p \in sort_orders(df) :
              \E out \in {process_monitoring_file(file_monitoring, p)} :
                  /\ df_monitoring' = out
                  /\ monitoring_csv' = out
    /\ pc' = "monitoring_done"
    /\ UNCHANGED <<file_monitoring, identVars, cmpVars, permVars, extractVars>>

NextMon == ProcessMonitoringFile

SpecMon == InitMon /\ [][NextMon]_vars

(***************************************************************************)
(* compare_srri_values.  A table is [columns, rows]: the column names and, *)
(* per row, the cells in column order.                                     *)
(***************************************************************************)
has_column(df, name) == \E i \in 1..Len(df.columns) : df.columns[i] = name

column_index(df, name) ==
    CHOOSE i \in 1..Len(df.columns) :
        /\ df.columns[i] = name
        /\ \A j \in 1..(i - 1) : df.columns[j] # name

\* df[name] of one row
cell(df, row, name) == row[column_index(df, name)]

\* STEP 2: strip, upper, " " -> "_", "-" -> "_"
normalize_columns(df) ==
    [i \in 1..Len(df.columns) |->
        replace(replace(upper(strip(df.columns[i])), " ", "_"), "-", "_")]

required_monitoring ==
    {"IDENTIFIER", "LATEST_SRRI", "WEEK_OF_CHANGE", "ANY_16_WEEKS_STABLE"}

required_permalink == {"IDENTIFIER", "KIID_SRRI"}

\* a plausible slip: the error names every required column
missing_columns_all(required, df) ==
    IF required \subseteq SetOf(df.columns) THEN {} ELSE required

\* required - set(df.columns)
missing_columns(required, df) == required \ SetOf(df.columns)

\* STEP 4: df[name] = pd.to_numeric(df[name], errors="coerce")
coerce_column(df, name) ==
    LET c == column_index(df, name)
    IN [df EXCEPT !.rows =
           [i \in 1..Len(df.rows) |-> [df.rows[i] EXCEPT ![c] = to_numeric(@)]]]

\* the comparison == True on one cell
is_true(c) == (c.t = "bool" /\ c.v) \/ (c.t = "num" /\ c.v = 1)

RECURSIVE FilterRows(_, _, _)
\* df[mask]: the rows at or after i that satisfy Keep, in order
FilterRows(rows, Keep(_), i) ==
    IF i > Len(rows) THEN <<>>
    ELSE IF Keep(rows[i]) THEN <<rows[i]>> \o FilterRows(rows, Keep, i + 1)
    ELSE FilterRows(rows, Keep, i + 1)

\* STEP 5: monitoring_df[monitoring_df["ANY_16_WEEKS_STABLE"] == True]
stable_rows(df) ==
    LET Keep(row) == is_true(cell(df, row, "ANY_16_WEEKS_STABLE"))
    IN FilterRows(df.rows, Keep, 1)

RECURSIVE MatchesOf(_, _, _, _, _)
\* the joined rows of one permalink row p: one per stable monitoring row at
\* or after i with the same IDENTIFIER, in order
MatchesOf(pdf, p, mdf, stable, i) ==
    IF i > Len(stable) THEN <<>>
    ELSE IF cell(mdf, stable[i], "IDENTIFIER") = cell(pdf, p, "IDENTIFIER")
         THEN <<p \o <<cell(mdf, stable[i], "LATEST_SRRI"),
                       cell(mdf, stable[i], "WEEK_OF_CHANGE")>> >>
                 \o MatchesOf(pdf, p, mdf, stable, i + 1)
         ELSE MatchesOf(pdf, p, mdf, stable, i + 1)

RECURSIVE MergeFrom(_, _, _, _)
MergeFrom(pdf, mdf, stable, i) ==
    IF i > Len(pdf.rows) THEN <<>>
    ELSE MatchesOf(pdf, pdf.rows[i], mdf, stable, 1)
            \o MergeFrom(pdf, mdf, stable, i + 1)

\* STEP 6: pd.merge(permalink_df, stable[[IDENTIFIER, LATEST_SRRI,
\* WEEK_OF_CHANGE]], on="IDENTIFIER", how="inner")
merge(pdf, mdf) ==
    [columns |-> pdf.columns \o <<"LATEST_SRRI", "WEEK_OF_CHANGE">>,
     rows |-> MergeFrom(pdf, mdf, stable_rows(mdf), 1)]

\* a plausible slip: rows with a missing value are not dropped
dropna_skipped(df) == df

\* STEP 7: merged_df.dropna(subset=["KIID_SRRI", "LATEST_SRRI"])
dropna(df) ==
    LET Keep(row) == /\ notna(cell(df, row, "KIID_SRRI"))
                     /\ notna(cell(df, row, "LATEST_SRRI"))
    IN [df EXCEPT !.rows = FilterRows(df.rows, Keep, 1)]

\* STEP 8: merged_df[merged_df["KIID_SRRI"] != merged_df["LATEST_SRRI"]]
mismatches(df) ==
    LET Keep(row) ==
            \/ isna(cell(df, row, "KIID_SRRI"))
            \/ isna(cell(df, row, "LATEST_SRRI"))
            \/ cell(df, row, "KIID_SRRI").v # cell(df, row, "LATEST_SRRI").v
    IN [df EXCEPT !.rows = FilterRows(df.rows, Keep, 1)]

preferred_order ==
    <<"FUND_NAME", "SHARE_CLASS", "ISIN", "KIID_PDF_URL", "FACT_SHEET_URL",
      "IDENTIFIER", "KIID_SRRI", "LATEST_SRRI", "WEEK_OF_CHANGE",
      "MANAGEMENT_FEE", "SHARE_CLASS_INCEPTION_DATE">>

\* STEP 9: the preferred columns that are present, in the preferred order
project(df) ==
    LET Present(name) == has_column(df, name)
        final_columns == FilterRows(preferred_order, Present, 1)
    IN [columns |-> final_columns,
        rows |-> [i \in 1..Len(df.rows) |->
                     [k \in 1..Len(final_columns) |->
                         cell(df, df.rows[i], final_columns[k])]]]

\* STEP 4-10 on the tables whose columns passed the validation: the
\* caller's tables after the coercion, and the table returned and written
compare_coerced(mdf2, pdf2) ==
    [monitoring_df |-> mdf2, permalink_df |-> pdf2, failed |-> FALSE,
     error |-> NoError,
     result |-> project(mismatches(dropna(merge(pdf2, mdf2))))]

\* STEP 3 on the tables with normalized column names
compare_normalized(mdf1, pdf1) ==
    LET missing_monitoring == missing_columns(required_monitoring, mdf1)
        missing_permalink == missing_columns(required_permalink, pdf1)
    IN IF missing_monitoring # {}
       THEN [monitoring_df |-> mdf1, permalink_df |-> pdf1, failed |-> TRUE,
             error |-> [file |-> "Monitoring", columns |-> missing_monitoring],
             result |-> NoTable]
       ELSE IF missing_permalink # {}
       THEN [monitoring_df |-> mdf1, permalink_df |-> pdf1, failed |-> TRUE,
             error |-> [file |-> "Permalink", columns |-> missing_permalink],
             result |-> NoTable]
       ELSE compare_coerced(coerce_column(mdf1, "LATEST_SRRI"),
                            coerce_column(pdf1, "KIID_SRRI"))

\* compare_srri_values on two DataFrames: the caller's tables as the call
\* leaves them, the error raised, and the table returned and written
compare_srri_values(mdf0, pdf0) ==
    compare_normalized([mdf0 EXCEPT !.columns = normalize_columns(mdf0)],
                       [pdf0 EXCEPT !.columns = normalize_columns(pdf0)])

(***************************************************************************)
(* Tables passed to compare_srri_values                                    *)
(***************************************************************************)
MaxMonitoringRows == 1
MaxPermalinkRows == 2

Identifiers == {"abc", "xyz"}

LatestCells == {Num(2), Num(3), Str("x")}

KiidCells == {Num(2), Str("3"), NaN}

MonitoringColumns ==
    <<"IDENTIFIER", "LATEST_SRRI", "WEEK_OF_CHANGE", "ANY_16_WEEKS_STABLE">>

PermalinkColumns == <<"FUND_NAME", "IDENTIFIER", "KIID_SRRI">>

\* the spellings of a column name a table may arrive with
Spell(style, name) ==
    CASE style = "canonical" -> name
      [] style = "spaced" -> " " \o lower(replace(name, "_", " ")) \o " "
      [] style = "hyphen" -> replace(name, "_", "-")

Styles == {"canonical", "spaced", "hyphen"}

\* the k-th monitoring row: its week of change names the row
MonitoringRow(k, x) ==
    <<Str(x[1]), x[2], Str("Week " \o ToString(k)), Bool(x[3])>>

\* the k-th permalink row: its fund name names the row
PermalinkRow(k, x) == <<Str("P" \o ToString(k)), Str(x[1]), x[2]>>

MonitoringRowSeqs ==
    {[k \in 1..Len(q) |-> MonitoringRow(k, q[k])] :
        q \in UNION {[1..n -> Identifiers \X LatestCells \X BOOLEAN] :
                        n \in 0..MaxMonitoringRows}}

PermalinkRowSeqs ==
    {[k \in 1..Len(q) |-> PermalinkRow(k, q[k])] :
        q \in UNION {[1..n -> Identifiers \X KiidCells] :
                        n \in 0..MaxPermalinkRows}}

\* a table without the columns in drop, its names spelled in style
TableOf(columns, style, drop, rows) ==
    LET Kept(name) == name \notin drop
        names == FilterRows(columns, Kept, 1)
        at == [k \in 1..Len(names) |->
                  CHOOSE i \in 1..Len(columns) : columns[i] = names[k]]
    IN [columns |-> [k \in 1..Len(names) |-> Spell(style, names[k])],
        rows |-> [r \in 1..Len(rows) |->
                     [k \in 1..Len(names) |-> rows[r][at[k]]]]]

SampleMonitoringRows ==
    <<MonitoringRow(1, <<"abc", Num(3), TRUE>>),
      MonitoringRow(2, <<"xyz", Str("x"), FALSE>>)>>

SamplePermalinkRows ==
    <<PermalinkRow(1, <<"abc", Num(2)>>), PermalinkRow(2, <<"xyz", Str("x")>>)>>

\* every pair of tables with complete, canonically named columns, and a
\* sample pair in every spelling with every set of required columns absent
ComparePairs ==
    {<<TableOf(MonitoringColumns, "canonical", {}, m),
       TableOf(PermalinkColumns, "canonical", {}, p)>> :
        m \in MonitoringRowSeqs, p \in PermalinkRowSeqs}
    \cup
    {<<TableOf(MonitoringColumns, sm, dm, SampleMonitoringRows),
       TableOf(PermalinkColumns, sp, dp, SamplePermalinkRows)>> :
        sm \in Styles, sp \in Styles,
        dm \in SUBSET required_monitoring, dp \in SUBSET required_permalink}

InitCompare ==
    /\ pc = "start"
    /\ ExtractIdle
    /\ IdentIdle
    /\ MonIdle
    /\ PermIdle
    /\ \E pair \in ComparePairs :
          /\ monitoring_df = pair[1]
          /\ permalink_df = pair[2]
    /\ result_df = NoTable
    /\ updates_csv = NoTable
    /\ error = NoError

\* result_df = compare_srri_values(df_monitoring, df_permalink): the call
\* works on the caller's two tables, raises or returns, and writes
\* output/srri_updates_needed.csv when it returns
CompareSrriValues ==
    /\ pc = "start"
    /\ \E out \in {compare_srri_values(monitoring_df, permalink_df)} :
          /\ monitoring_df' = out.monitoring_df
          /\ permalink_df' = out.permalink_df
          /\ error' = out.error
          /\ result_df' = out.result
          /\ updates_csv' = out.result
          /\ pc' = IF out.failed THEN "compare_failed" ELSE "compared"
    /\ UNCHANGED <<identVars, monVars, permVars, extractVars>>

NextCompare == CompareSrriValues

SpecCompare == InitCompare /\ [][NextCompare]_vars

(***************************************************************************)
(* process_and_extract_permalink_file                                      *)
(***************************************************************************)
UpperOrDigit == UpperLetters \cup DigitChars

WordChars == UpperLetters \cup LowerLetters \cup DigitChars \cup {"_"}

\* a \b boundary lies between positions i - 1 and i of s
WordBoundary(s, i) ==
    LET before == i > 1 /\ Char(s, i - 1) \in WordChars
        after == i <= Len(s) /\ Char(s, i) \in WordChars
    IN before # after

\* \bIE[0-9A-Z]{10}\b matches at i
MatchIsinAt(s, i) ==
    /\ MatchAt(s, "IE", i)
    /\ i + 11 <= Len(s)
    /\ \A k \in (i + 2)..(i + 11) : Char(s, k) \in UpperOrDigit
    /\ WordBoundary(s, i)
    /\ WordBoundary(s, i + 12)

\* re.search(r"\bIE[0-9A-Z]{10}\b", line): the leftmost match, "" for None
search_isin(line) ==
    LET hits == {i \in 1..Len(line) : MatchIsinAt(line, i)}
    IN IF hits = {} THEN ""
       ELSE LET i == CHOOSE h \in hits : \A g \in hits : h <= g
            IN SubSeq(line, i, i + 11)

\* the length of the scheme https?:// at i, 0 when there is none
SchemeAt(s, i) ==
    IF MatchAt(s, "http://", i) THEN 7
    ELSE IF MatchAt(s, "https://", i) THEN 8 ELSE 0

\* the ends e of the matches of https?://\S+?<marker> that start at i
UrlEnds(s, i, marker) ==
    IF SchemeAt(s, i) = 0 THEN {}
    ELSE {e \in (i + SchemeAt(s, i) + 1)..Len(s) :
             /\ MatchAt(s, marker, e)
             /\ \A k \in (i + SchemeAt(s, i))..(e - 1) : ~IsSpace(Char(s, k))}

\* re.search(r"https?://\S+?<marker>", line): the leftmost match and from
\* there the shortest, "" for None
search_url(line, marker) ==
    LET hits == {i \in 1..Len(line) : UrlEnds(line, i, marker) # {}}
    IN IF hits = {} THEN ""
       ELSE LET i == CHOOSE h \in hits : \A g \in hits : h <= g
                ends == UrlEnds(line, i, marker)
                e == CHOOSE x \in ends : \A y \in ends : x <= y
            IN SubSeq(line, i, e + Len(marker) - 1)

RECURSIVE strip_quotes(_)
\* line.strip('"')
strip_quotes(s) ==
    IF s = "" THEN ""
    ELSE IF Char(s, 1) = "\"" THEN strip_quotes(SubSeq(s, 2, Len(s)))
    ELSE IF Char(s, Len(s)) = "\"" THEN strip_quotes(SubSeq(s, 1, Len(s) - 1))
    ELSE s

RECURSIVE split(_, _)
\* s.split(sep) for a separator of one character
split(s, sep) ==
    LET hits == {i \in 1..Len(s) : Char(s, i) = sep}
    IN IF hits = {} THEN <<s>>
       ELSE LET i == CHOOSE h \in hits : \A g \in hits : h <= g
            IN <<SubSeq(s, 1, i - 1)>> \o split(SubSeq(s, i + 1, Len(s)), sep)

is_uk_english(line) ==
    /\ contains(line, "English")
    /\ \/ contains(line, "UK Professional Investor")
       \/ contains(line, "UK Retail Investor")

\* STEP 2: the filters of the two document types
is_kiid_line(line) ==
    contains(line, "UCITS KIID") /\ contains(line, "KIID.pdf") /\ is_uk_english(line)

is_factsheet_line(line) ==
    contains(line, "Fact Sheet") /\ contains(line, "FactSheet.pdf")
        /\ is_uk_english(line)

\* line 34: third alone when fourth starts with IE, else "third - fourth"
share_class_of(third, fourth) ==
    IF startswith(fourth, "IE") THEN third ELSE third \o " - " \o fourth

\* STEP 3 on one line: the record appended to kiid_data, <<>> when the line
\* is dropped
kiid_record(line) ==
    CHOOSE rec \in
        {IF url # "" /\ isin # "" /\ Len(fields) >= 4
         THEN <<[Line |-> line,
                 FundName |-> strip(fields[2]),
                 ShareClass |-> share_class_of(strip(fields[3]), strip(fields[4])),
                 ISIN |-> isin,
                 KiidPdfUrl |-> url]>>
         ELSE <<>> :
            url \in {search_url(line, "KIID.pdf")},
            isin \in {search_isin(line)},
            fields \in {split(strip_quotes(line), ",")}} : TRUE

\* STEP 4 on one line
factsheet_record(line) ==
    LET url == search_url(line, "FactSheet.pdf")
        isin == search_isin(line)
    IN IF url # "" /\ isin # ""
       THEN <<[ISIN |-> isin, FactSheetUrl |-> url]>>
       ELSE <<>>

RECURSIVE kiid_data(_, _)
\* STEP 3: the records of the KIID lines at or after i, in manifest order
kiid_data(lines, i) ==
    IF i > Len(lines) THEN <<>>
    ELSE (IF is_kiid_line(lines[i]) THEN kiid_record(lines[i]) ELSE <<>>)
            \o kiid_data(lines, i + 1)

RECURSIVE factsheet_data(_, _)
\* STEP 4: the records of the fact-sheet lines at or after i
factsheet_data(lines, i) ==
    IF i > Len(lines) THEN <<>>
    ELSE (IF is_factsheet_line(lines[i]) THEN factsheet_record(lines[i]) ELSE <<>>)
            \o factsheet_data(lines, i + 1)

\* STEP 5: the Fact Sheet URL the left join gives a KIID record: the URL of
\* the first fact-sheet record with its ISIN, NaN when there is none
fact_sheet_url(fs, isin) ==
    LET hits == {i \in 1..Len(fs) : fs[i].ISIN = isin}
    IN IF hits = {} THEN NaN
       ELSE Str(fs[CHOOSE h \in hits : \A g \in hits : h <= g].FactSheetUrl)

\* \s of the patterns applied to document text
IsWhite(ch) == ch \in {" ", "\n", "\t"}

RECURSIVE SkipWhite(_, _)
\* first index at or after i that is not whitespace (the end of \s*)
SkipWhite(s, i) ==
    IF i <= Len(s) /\ IsWhite(Char(s, i)) THEN SkipWhite(s, i + 1) ELSE i

\* does pat, given in lower case, occur in s at index i whatever the case
\* (re.IGNORECASE)
MatchAtIgnoreCase(s, pat, i) ==
    /\ i >= 1
    /\ i + Len(pat) - 1 <= Len(s)
    /\ lower(Char(s, i)) = Char(pat, 1)
    /\ lower(SubSeq(s, i, i + Len(pat) - 1)) = pat

RECURSIVE ScaleEnd(_, _, _)
\* \s*d\s*(d+1)...\s*7 from index i: the index after the 7, 0 when the
\* text does not match
ScaleEnd(s, i, d) ==
    LET j == SkipWhite(s, i)
    IN IF j > Len(s) \/ Char(s, j) # ToString(d) THEN 0
       ELSE IF d = 7 THEN j + 1
       ELSE ScaleEnd(s, j + 1, d + 1)

\* line 98: Risk and Reward Profile\s*1\s*2\s*3\s*4\s*5\s*6\s*7 at index i,
\* ignoring case: the index after the match, 0 when there is none
HeaderEnd(s, i) ==
    IF MatchAtIgnoreCase(s, "risk and reward profile", i)
    THEN ScaleEnd(s, i + 23, 1)
    ELSE 0

\* the least element of a non-empty set of integers
Least(S) == CHOOSE x \in S : \A y \in S : x <= y

\* line 98-99: parts[1] of the split on the header, as <<parts[1]>>, and
\* <<>> when the header does not occur (len(parts) < 2)
parts_1(text) ==
    LET hits == {i \in 1..Len(text) : HeaderEnd(text, i) # 0}
    IN IF hits = {} THEN <<>>
       ELSE LET from == HeaderEnd(text, Least(hits))
                later == {i \in hits : i >= from}
                upto == IF later = {} THEN Len(text) ELSE Least(later) - 1
            IN <<SubSeq(text, from, upto)>>

ScaleDigits == {"1", "2", "3", "4", "5", "6", "7"}

\* line 100: re.search(r"\b[1-7]\b", part), as a cell
search_scale_value(part) ==
    LET hits == {i \in 1..Len(part) :
                    /\ Char(part, i) \in ScaleDigits
                    /\ WordBoundary(part, i)
                    /\ WordBoundary(part, i + 1)}
    IN IF hits = {} THEN None ELSE Num(ParseInt(Char(part, Least(hits))))

\* line 97-102: what the primary backend's text gives for srri_value
primary_srri(text) ==
    LET parts == parts_1(text)
    IN IF parts = <<>> THEN None ELSE search_scale_value(parts[1])

\* the ends j of the matches of risk.*?([1-7]) that start at i: a digit of
\* the scale after the word, with no line break in between
RiskDigits(s, i) ==
    IF ~MatchAtIgnoreCase(s, "risk", i) THEN {}
    ELSE {j \in (i + 4)..Len(s) :
             /\ Char(s, j) \in ScaleDigits
             /\ \A k \in (i + 4)..(j - 1) : Char(s, k) # "\n"}

\* line 120-121, first pattern: re.search(r'risk.*?([1-7])', full_text,
\* re.IGNORECASE), group 1 as a cell
search_risk(s) ==
    LET hits == {i \in 1..Len(s) : RiskDigits(s, i) # {}}
    IN IF hits = {} THEN None
       ELSE Num(ParseInt(Char(s, Least(RiskDigits(s, Least(hits))))))

\* category\s+(\d)\s+reflects at index i, ignoring case: the index of the
\* digit, 0 when there is no match
CategoryDigitAt(s, i) ==
    IF ~MatchAtIgnoreCase(s, "category", i) THEN 0
    ELSE LET d == SkipWhite(s, i + 8)
             r == SkipWhite(s, d + 1)
         IN IF /\ d > i + 8
               /\ d <= Len(s)
               /\ IsDigit(Char(s, d))
               /\ r > d + 1
               /\ MatchAtIgnoreCase(s, "reflects", r)
            THEN d ELSE 0

\* line 120-121, second pattern: re.search(r'category\s+(\d)\s+reflects',
\* full_text, re.IGNORECASE), group 1 as a cell
search_category(s) ==
    LET hits == {i \in 1..Len(s) : CategoryDigitAt(s, i) # 0}
    IN IF hits = {} THEN None
       ELSE Num(ParseInt(Char(s, CategoryDigitAt(s, Least(hits)))))

\* line 119-124: the first of the two patterns that matches full_text
fallback_srri(full_text) ==
    IF notna(search_risk(full_text)) THEN search_risk(full_text)
    ELSE search_category(full_text)

\* line 97-124: srri_value from the text of the primary backend and the
\* text of the fallback backend.  The management fee is not in these texts,
\* so the fallback backend always runs (line 115)
srri_of_texts(text, full_text) ==
    IF notna(primary_srri(text)) THEN primary_srri(text)
    ELSE fallback_srri(full_text)

\* line 84-143: extract_srri_and_fee on what the link serves: the
\* KIID_SRRI, None when the request fails (line 136) or no pattern matches
extract_srri_and_fee(doc) ==
    IF doc.ok THEN srri_of_texts(doc.text, doc.full_text) ELSE None

\* STEP 7/9 (line 184): extract_srri_and_fee(url) against the documents of
\* the web
extract_srri(docs, url) ==
    CHOOSE out \in {extract_srri_and_fee(docs[url])} : TRUE

\* STEP 10: pd.to_numeric(..., errors="coerce").astype("Int64") on one cell
to_int64(c) == IF to_numeric(c).t = "num" THEN to_numeric(c) ELSE NaN

\* STEP 6-11 (line 219): the row of final_df of one KIID record
final_row(docs, fs, rec) ==
    [LINE |-> Str(rec.Line),
     FUND_NAME |-> Str(rec.FundName),
     SHARE_CLASS |-> Str(rec.ShareClass),
     ISIN |-> Str(rec.ISIN),
     KIID_PDF_URL |-> Str(rec.KiidPdfUrl),
     FACT_SHEET_URL |-> Str(astype_str(fact_sheet_url(fs, rec.ISIN))),
     IDENTIFIER |-> Str(clean_identifier(rec.ShareClass)),
     KIID_SRRI |-> to_int64(extract_srri(docs, rec.KiidPdfUrl))]

\* final_df before the clean-up of STEP 11, from the parsed KIID records
\* and fact-sheet records
final_df(docs, kiid, fs) ==
    [i \in 1..Len(kiid) |-> final_row(docs, fs, kiid[i])]

\* a plausible slip: rows without a KIID_SRRI are kept
retained_any_srri(r) == strip(r.SHARE_CLASS.v) # ""

\* line 221: Share Class not blank and KIID_SRRI present
retained(r) == strip(r.SHARE_CLASS.v) # "" /\ notna(r.KIID_SRRI)

\* STEP 11: filter, then drop_duplicates(subset="Identifier", keep="first")
clean_up(df) ==
    CHOOSE out \in {drop_duplicates(kept, 1) :
                       kept \in {FilterRows(df, retained, 1)}} : TRUE

\* does the function raise: without a KIID record or without a fact-sheet
\* record one of the two frames has no ISIN column, and the merge on ISIN
\* (line 60) raises KeyError
permalink_raises(kiid, fs) == kiid = <<>> \/ fs = <<>>

\* process_and_extract_permalink_file: the table returned and written,
\* with failed set when the function raises
process_and_extract_permalink_file(docs, lines) ==
    CHOOSE out \in
        {IF permalink_raises(kiid, fs)
         THEN [failed |-> TRUE, df |-> <<>>]
         ELSE [failed |-> FALSE, df |-> clean_up(final_df(docs, kiid, fs))] :
            kiid \in {kiid_data(lines, 1)}, fs \in {factsheet_data(lines, 1)}} :
        TRUE

(***************************************************************************)
(* Manifests and the documents behind their links                          *)
(***************************************************************************)
MaxLines == 2

KiidUrls == {"http://u/aKIID.pdf", "http://u/bKIID.pdf"}

\* the ISIN of the fund a KIID link belongs to
IsinOf(url) == IF url = "http://u/aKIID.pdf" THEN "IE00000000A1" ELSE "IE00000000B2"

\* fields[2] and what stands between it and the ISIN: nothing, so that
\* fields[3] is the ISIN itself, or a second part of the share class, which
\* may itself begin with the letters IE
ShareClassFields ==
    {<<"Class A", "">>, <<" ", "">>, <<"A", "Acc">>, <<"A", "IE Acc">>}

KiidLine(third, fourth, url) ==
    "UCITS KIID,FT Fund," \o third \o ","
        \o (IF fourth = "" THEN "" ELSE fourth \o ",")
        \o IsinOf(url) \o ",English,UK Retail Investor," \o url

FactSheetLine ==
    "Fact Sheet,FT Fund,IE00000000A1,English,UK Retail Investor,http://u/aFactSheet.pdf"

KiidLines == {KiidLine(f[1], f[2], u) : f \in ShareClassFields, u \in KiidUrls}

\* up to MaxLines KIID lines, followed or not by a fact-sheet line
Manifests ==
    {k \o tail :
        k \in UNION {[1..n -> KiidLines] : n \in 0..MaxLines},
        tail \in {<<>>, <<FactSheetLine>>}}

\* what a KIID link serves: a document whose risk value the primary text
\* gives, one whose risk value the fallback text gives, one in which no
\* pattern finds a value, or a failing request
KiidDocs ==
    {[ok |-> TRUE, text |-> "Risk and Reward Profile 1 2 3 4 5 6 7 3 ",
      full_text |-> ""],
     [ok |-> TRUE, text |-> "", full_text |-> "Category 4 reflects"],
     [ok |-> TRUE, text |-> "", full_text |-> "Charges"],
     [ok |-> FALSE, text |-> "", full_text |-> ""]}

Webs == [KiidUrls -> KiidDocs]

InitPermalink ==
    /\ pc = "start"
    /\ ExtractIdle
    /\ IdentIdle
    /\ MonIdle
    /\ CmpIdle
    /\ manifest \in Manifests
    /\ web \in Webs
    /\ df_permalink = <<>>
    /\ permalink_csv = <<>>

\* process_and_extract_permalink_file(file_permalink) returns and writes
\* output/permalink_tsfm.csv
ProcessPermalinkFile ==
    /\ pc = "start"
    /\ \E out \in {process_and_extract_permalink_file(web, manifest)} :
          /\ ~out.failed
          /\ df_permalink' = out.df
          /\ permalink_csv' = out.df
    /\ pc' = "permalink_done"
    /\ UNCHANGED <<manifest, web, identVars, monVars, cmpVars, extractVars>>

\* process_and_extract_permalink_file(file_permalink) raises KeyError
ProcessPermalinkFileFails ==
    /\ pc = "start"
    /\ process_and_extract_permalink_file(web, manifest).failed
    /\ pc' = "permalink_failed"
    /\ UNCHANGED <<permVars, identVars, monVars, cmpVars, extractVars>>

NextPermalink == ProcessPermalinkFile \/ ProcessPermalinkFileFails

SpecPermalink == InitPermalink /\ [][NextPermalink]_vars

(***************************************************************************)
(* Documents given to extract_srri_and_fee: the text of each backend is    *)
(* up to MaxPieces pieces of KIID text                                     *)
(***************************************************************************)
MaxPieces == 2

TextPieces ==
    {"Risk and Reward Profile 1 2 3 4 5 6 7", " 5 ", "Category 3 reflects ",
     "lower risk ", "\n"}

Texts == {Concat(q) : q \in UNION {[1..n -> TextPieces] : n \in 0..MaxPieces}}

Responses ==
    {[ok |-> TRUE, text |-> t, full_text |-> f] : t \in Texts, f \in Texts}
    \cup {[ok |-> FALSE, text |-> "", full_text |-> ""]}

InitExtract ==
    /\ pc = "start"
    /\ IdentIdle
    /\ MonIdle
    /\ CmpIdle
    /\ PermIdle
    /\ response \in Responses
    /\ srri_value = None

\* extract_srri_and_fee(url) returns
ExtractSrriAndFee ==
    /\ pc = "start"
    /\ srri_value' = extract_srri_and_fee(response)
    /\ pc' = "extracted"
    /\ UNCHANGED <<response, identVars, monVars, cmpVars, permVars>>

NextExtract == ExtractSrriAndFee

SpecExtract == InitExtract /\ [][NextExtract]_vars

(***************************************************************************)
(* Properties of the monitoring transformer                                *)
(***************************************************************************)
MonDone == pc = "monitoring_done"

InputRows == {file_monitoring.rows[i] : i \in 1..Len(file_monitoring.rows)}

OutputRows == {df_monitoring[i] : i \in 1..Len(df_monitoring)}

\* the data row of the sheet an output row was computed from
InputRowOf(r) == CHOOSE q \in InputRows : q.fund = r.FUND

\* the number of weekly cells of a data row that hold a value
NonMissingCount(q) == Cardinality({k \in 1..Len(q.cells) : q.cells[k].t = "num"})

\* the chronological sequence of the non-missing weekly values of a data row
History(q) ==
    LET idx == NonMissing(q.cells, 1)
    IN [k \in 1..Len(idx) |-> q.cells[idx[k]].v]

\* C2: every row of the table process_monitoring_file returns comes from a
\* data row with at least 16 non-missing weekly SRRI values
C2_MinHistoryGate ==
    MonDone =>
        \A r \in OutputRows :
            /\ \E q \in InputRows : q.fund = r.FUND
            /\ NonMissingCount(InputRowOf(r)) >= 16

\* C2 witness: a data row with 15 values was dropped while another row of
\* the same sheet was kept
C2_Witness ==
    /\ MonDone
    /\ df_monitoring # <<>>
    /\ \E q \in InputRows :
          /\ NonMissingCount(q) = 15
          /\ \A r \in OutputRows : r.FUND # q.fund

\* v[i..i+15] are sixteen equal values
Uniform16(v, i) == \A k \in i..(i + 15) : v[k] = v[i]

\* C3: ANY_16_WEEKS_STABLE holds exactly when the non-missing values contain
\* 16 consecutive equal values, LAST_16_WEEKS_STABLE exactly when the last 16
\* non-missing values are equal, and LAST implies ANY
C3_StabilityFlags ==
    MonDone =>
        \A r \in OutputRows :
            LET v == History(InputRowOf(r))
                n == Len(v)
            IN /\ r.ANY_16_WEEKS_STABLE.v
                    <=> (\E i \in 1..(n - 15) : Uniform16(v, i))
               /\ r.LAST_16_WEEKS_STABLE.v
                    <=> (n >= 16 /\ Uniform16(v, n - 15))
               /\ r.LAST_16_WEEKS_STABLE.v => r.ANY_16_WEEKS_STABLE.v

\* C3 witness: sixteen 3s followed by a 2 give any = true, last = false
C3_Witness ==
    /\ MonDone
    /\ \E r \in OutputRows :
          /\ History(InputRowOf(r)) = [k \in 1..17 |-> IF k <= 16 THEN 3 ELSE 2]
          /\ r.ANY_16_WEEKS_STABLE = Bool(TRUE)
          /\ r.LAST_16_WEEKS_STABLE = Bool(FALSE)

\* the week label of the k-th non-missing value of a data row
WeekLabelAt(q, k) ==
    "Week " \o ToString(file_monitoring.weeks[NonMissing(q.cells, 1)[k]])

\* the latest and previous values and the change week of C4, with the
\* change week of a constant history given by the predicate Unset
ChangeInfoHolds(r, Unset(_)) ==
    LET q == InputRowOf(r)
        v == History(q)
        n == Len(v)
        D == {i \in 1..n : v[i] # v[n]}
        j == CHOOSE i \in D : \A k \in D : k <= i
    IN /\ r.LATEST_SRRI = Num(v[n])
       /\ IF D # {}
          THEN /\ r.PREVIOUS_SRRI = Num(v[j])
               /\ r.WEEK_OF_CHANGE = Str(WeekLabelAt(q, j + 1))
          ELSE /\ r.PREVIOUS_SRRI = r.LATEST_SRRI
               /\ Unset(r.WEEK_OF_CHANGE)

\* C4: LATEST_SRRI is the last value, PREVIOUS_SRRI the last value that
\* differs from it and WEEK_OF_CHANGE the week after that one; a constant
\* history has PREVIOUS_SRRI = LATEST_SRRI and a missing WEEK_OF_CHANGE
C4_ChangeInfo ==
    MonDone => \A r \in OutputRows : ChangeInfoHolds(r, isna)

IsNoneText(c) == c = Str("None")

\* C4 as the code has it: the change week of a constant history is the
\* text "None"
C4_ChangeInfoNoneText ==
    MonDone => \A r \in OutputRows : ChangeInfoHolds(r, IsNoneText)

\* the rows of the sheet that pass the history gate and derive identifier id
Colliding(id) ==
    {q \in InputRows :
        /\ NonMissingCount(q) >= 16
        /\ generate_identifier(q.share_class, q.currency) = id}

\* the parseable last-validated dates of a set of data rows, as ISO text
DatesOf(rows) ==
    {to_datetime_strftime(q.last_validated).v :
        q \in {x \in rows : to_datetime_strftime(x.last_validated).t = "str"}}

\* C5: no two output rows share an IDENTIFIER, and the surviving row of an
\* identifier carries the most recent date of the gated rows deriving it
C5_DedupKeepsMostRecent ==
    MonDone =>
        /\ \A i, j \in 1..Len(df_monitoring) :
              i # j => df_monitoring[i].IDENTIFIER # df_monitoring[j].IDENTIFIER
        /\ \A r \in OutputRows :
              \A d \in DatesOf(Colliding(r.IDENTIFIER.v)) :
                  /\ r.LAST_VALIDATED_DOCUMENT.t = "str"
                  /\ ~str_lt(r.LAST_VALIDATED_DOCUMENT.v, d)

\* C5, the part that holds: identifiers are unique in the output, and among
\* colliding rows that all have a date the most recent one survives
C5_UniqueIdentifiers ==
    MonDone =>
        /\ \A i, j \in 1..Len(df_monitoring) :
              i # j => df_monitoring[i].IDENTIFIER # df_monitoring[j].IDENTIFIER
        /\ \A r \in OutputRows :
              LET rows == Colliding(r.IDENTIFIER.v)
              IN (\A q \in rows : to_datetime_strftime(q.last_validated).t = "str")
                    => \A d \in DatesOf(rows) :
                          /\ r.LAST_VALIDATED_DOCUMENT.t = "str"
                          /\ ~str_lt(r.LAST_VALIDATED_DOCUMENT.v, d)

(***************************************************************************)
(* Properties of the reconciler                                            *)
(***************************************************************************)
ResultRows == {result_df.rows[i] : i \in 1..Len(result_df.rows)}

MonitoringRows == {monitoring_df.rows[i] : i \in 1..Len(monitoring_df.rows)}

PermalinkRows == {permalink_df.rows[i] : i \in 1..Len(permalink_df.rows)}

\* the result row r was built from permalink row p and monitoring row m
BuiltFrom(r, p, m) ==
    /\ cell(result_df, r, "FUND_NAME") = cell(permalink_df, p, "FUND_NAME")
    /\ cell(result_df, r, "WEEK_OF_CHANGE")
          = cell(monitoring_df, m, "WEEK_OF_CHANGE")

\* C1: every mismatch row has a KIID_SRRI and a LATEST_SRRI that are present
\* and differ, and the IDENTIFIER of a monitoring row that is stable; a pair
\* of rows with one identifier and a missing value is never reported
C1_MismatchRows ==
    pc = "compared" =>
        /\ \A r \in ResultRows :
              /\ cell(result_df, r, "KIID_SRRI").t = "num"
              /\ cell(result_df, r, "LATEST_SRRI").t = "num"
              /\ cell(result_df, r, "KIID_SRRI").v
                    # cell(result_df, r, "LATEST_SRRI").v
              /\ \E m \in MonitoringRows :
                    /\ cell(monitoring_df, m, "IDENTIFIER")
                          = cell(result_df, r, "IDENTIFIER")
                    /\ cell(monitoring_df, m, "ANY_16_WEEKS_STABLE") = Bool(TRUE)
                    /\ cell(monitoring_df, m, "LATEST_SRRI")
                          = cell(result_df, r, "LATEST_SRRI")
        /\ \A p \in PermalinkRows, m \in MonitoringRows :
              (/\ cell(permalink_df, p, "IDENTIFIER")
                     = cell(monitoring_df, m, "IDENTIFIER")
               /\ \/ cell(permalink_df, p, "KIID_SRRI").t # "num"
                  \/ cell(monitoring_df, m, "LATEST_SRRI").t # "num")
                 => \A r \in ResultRows : ~BuiltFrom(r, p, m)

\* C1 witness: one pair is reported as a mismatch while a pair of a stable
\* monitoring row and a permalink row whose KIID_SRRI is missing is not
C1_Witness ==
    /\ pc = "compared"
    /\ result_df.rows # <<>>
    /\ \E p \in PermalinkRows, m \in MonitoringRows :
          /\ cell(permalink_df, p, "IDENTIFIER")
                = cell(monitoring_df, m, "IDENTIFIER")
          /\ cell(monitoring_df, m, "ANY_16_WEEKS_STABLE") = Bool(TRUE)
          /\ cell(permalink_df, p, "KIID_SRRI") = NaN
          /\ \A r \in ResultRows : ~BuiltFrom(r, p, m)

\* C8: a call of compare_srri_values, successful or failed, leaves the
\* column names and the cells of the caller's two tables as they were
C8_InputsUnchanged ==
    [][pc' \in {"compared", "compare_failed"} =>
          /\ monitoring_df' = monitoring_df
          /\ permalink_df' = permalink_df]_vars

\* the required columns absent from the two tables, each with its table
AbsentColumns ==
    {<<"Monitoring", c>> : c \in required_monitoring \ SetOf(monitoring_df.columns)}
    \cup
    {<<"Permalink", c>> : c \in required_permalink \ SetOf(permalink_df.columns)}

\* the columns the raised error names, each with the table it names
NamedColumns == {<<error.file, c>> : c \in error.columns}

NothingReported == result_df = NoTable /\ updates_csv = NoTable

\* C9: when a required column is absent after the normalization, the call
\* fails, the error names exactly the absent required columns, and no report
\* is written or returned
C9_ErrorNamesAllAbsent ==
    (pc \in {"compared", "compare_failed"} /\ AbsentColumns # {}) =>
        /\ pc = "compare_failed"
        /\ NamedColumns = AbsentColumns
        /\ NothingReported

\* C9 amended: the error names exactly the absent required columns of the
\* monitoring table when it lacks any, and otherwise exactly those of the
\* permalink table; no report is written or returned
C9_ErrorNamesFirstTable ==
    (pc \in {"compared", "compare_failed"} /\ AbsentColumns # {}) =>
        /\ pc = "compare_failed"
        /\ NamedColumns =
              IF \E a \in AbsentColumns : a[1] = "Monitoring"
              THEN {a \in AbsentColumns : a[1] = "Monitoring"}
              ELSE AbsentColumns
        /\ NothingReported

\* C9 witness: the call failed on a permalink table without KIID_SRRI whose
\* remaining names were normalized from another spelling
C9_Witness ==
    /\ pc = "compare_failed"
    /\ AbsentColumns = {<<"Permalink", "KIID_SRRI">>}
    /\ NamedColumns = AbsentColumns
    /\ NothingReported

(***************************************************************************)
(* Properties of the identifier derivations                                *)
(***************************************************************************)
\* C6: both derivations are idempotent: applied to its own result, each
\* returns that result
C6_Idempotent ==
    pc \in {"generated", "cleaned"} => identifier2 = identifier

\* C6 amended: generate_identifier returns its own result unchanged when that
\* result ends with the lower-case currency code, contains the code only
\* there and does not contain "accu"; clean_identifier inserts the vendor
\* prefix again when its result contains none of "ucits", "ucts", "accu"
C6_ConditionalIdempotence ==
    /\ (/\ pc = "generated"
        /\ endswith(identifier, lower(currency))
        /\ CountOccurrences(identifier, lower(currency)) = 1
        /\ ~contains(identifier, "accu"))
          => identifier2 = identifier
    /\ (/\ pc = "cleaned"
        /\ ~contains(identifier, "ucits")
        /\ ~contains(identifier, "ucts")
        /\ ~contains(identifier, "accu"))
          => identifier2 = "firsttrust" \o identifier

\* C6 witness: a name that embeds its currency, whose identifier the second
\* application returns unchanged
C6_Witness ==
    /\ pc = "generated"
    /\ share_class = "Class A USD "
    /\ currency = "USD"
    /\ identifier = "ausd"
    /\ identifier2 = identifier

\* the identifier without its trailing hedged suffix
WithoutHedgedSuffix ==
    SubSeq(identifier, 1,
           Len(identifier) - Len(hedged_suffix_of(MonitoringCleanName(share_class))))

\* C7: the monitoring identifier without its hedged suffix ends with the
\* lower-case currency code and contains that code exactly once
C7_SingleTrailingCurrency ==
    pc = "generated" =>
        /\ endswith(WithoutHedgedSuffix, lower(currency))
        /\ CountOccurrences(WithoutHedgedSuffix, lower(currency)) = 1

\* C7, the part that holds: the identifier without its hedged suffix ends
\* with the lower-case currency code
C7_TrailingCurrency ==
    pc = "generated" => endswith(WithoutHedgedSuffix, lower(currency))

(***************************************************************************)
(* Properties of the permalink extractor                                   *)
(***************************************************************************)
PermDone == pc = "permalink_done"

\* the rows of the manifest's KIID records before the clean-up, in manifest
\* order
Candidates ==
    final_df(web, kiid_data(manifest, 1), factsheet_data(manifest, 1))

\* a row with a share class that is not blank and a KIID_SRRI
Qualifies(q) == strip(q.SHARE_CLASS.v) # "" /\ q.KIID_SRRI.t = "num"

\* the positions of the qualifying rows of cand with identifier id
QualifyingAt(cand, id) ==
    {k \in 1..Len(cand) : Qualifies(cand[k]) /\ cand[k].IDENTIFIER = id}

\* df is what the clean-up leaves of the candidate rows cand
FirstQualifying(cand, df) ==
    /\ \A i \in 1..Len(df) : Qualifies(df[i])
    /\ \A i, j \in 1..Len(df) : i # j => df[i].IDENTIFIER # df[j].IDENTIFIER
    /\ \A i \in 1..Len(df) :
          LET at == QualifyingAt(cand, df[i].IDENTIFIER)
          IN /\ at # {}
             /\ df[i] = cand[CHOOSE k \in at : \A m \in at : k <= m]
    /\ \A k \in 1..Len(cand) :
          Qualifies(cand[k]) =>
              \E i \in 1..Len(df) : df[i].IDENTIFIER = cand[k].IDENTIFIER

\* C10: every output row has a share class that is not blank and a
\* KIID_SRRI, no two rows share an IDENTIFIER, and the row of an identifier
\* is the first row in manifest order among the qualifying rows
C10_RetainedFirstQualifying ==
    PermDone => \A cand \in {Candidates} : FirstQualifying(cand, df_permalink)

\* C10 witness: the first line of an identifier has no KIID_SRRI, and the
\* second line of that identifier is the row that survives
C10_Witness ==
    /\ PermDone
    /\ \E cand \in {Candidates} :
          /\ Len(cand) = 2
          /\ cand[1].IDENTIFIER = cand[2].IDENTIFIER
          /\ isna(cand[1].KIID_SRRI)
          /\ df_permalink = <<cand[2]>>

\* the request for the KIID document of candidate row q fails
FetchFails(q) == ~web[q.KIID_PDF_URL.v].ok

\* nothing but its KIID_SRRI can keep candidate k out of the output: its
\* share class is not blank and no earlier candidate has its identifier
OnlySrriAtStake(cand, k) ==
    /\ strip(cand[k].SHARE_CLASS.v) # ""
    /\ \A m \in 1..(k - 1) : cand[m].IDENTIFIER # cand[k].IDENTIFIER

\* C11: a row whose KIID request fails survives in the output of
\* process_and_extract_permalink_file, with its KIID_SRRI missing
C11_FailedRowSurvives ==
    PermDone =>
        \A cand \in {Candidates} :
            \A k \in 1..Len(cand) :
                FetchFails(cand[k]) /\ OnlySrriAtStake(cand, k) =>
                    \E i \in 1..Len(df_permalink) :
                        /\ df_permalink[i].LINE = cand[k].LINE
                        /\ isna(df_permalink[i].KIID_SRRI)

PermFailed == pc = "permalink_failed"

\* the fact-sheet cell of output row r is the join's cell for its ISIN, the
\* missing cell being exported as the text nan
JoinedAs(fs, r) ==
    LET url == fact_sheet_url(fs, r.ISIN.v)
    IN r.FACT_SHEET_URL = (IF isna(url) THEN Str("nan") ELSE url)

\* C12: for a manifest with at least one parsed KIID record, with or without
\* a qualifying fact-sheet line, the join is made (the function does not
\* raise) and the fact-sheet URL of a row is that of the first fact-sheet
\* line with its ISIN, or missing when there is none
C12_JoinKeepsEveryKiidRecord ==
    pc # "start" =>
        \A kiid \in {kiid_data(manifest, 1)} :
            kiid # <<>> =>
                /\ ~PermFailed
                /\ \A fs \in {factsheet_data(manifest, 1)} :
                      \A i \in 1..Len(df_permalink) :
                          JoinedAs(fs, df_permalink[i])

\* with at least one fact-sheet record, the function does not raise and
\* every output row carries the join's fact-sheet cell
C12_JoinWithFactSheets ==
    pc # "start" =>
        \A kiid \in {kiid_data(manifest, 1)}, fs \in {factsheet_data(manifest, 1)} :
            kiid # <<>> /\ fs # <<>> =>
                /\ PermDone
                /\ \A i \in 1..Len(df_permalink) : JoinedAs(fs, df_permalink[i])

\* an ISIN: IE followed by 10 characters that are capitals or digits
IsIsin(s) ==
    /\ Len(s) = 12
    /\ startswith(s, "IE")
    /\ \A k \in 3..12 : Char(s, k) \in UpperOrDigit

\* the share class of the manifest line of row r, by its fields 2 and 3
ShareClassByIsin(r) ==
    LET fields == split(strip_quotes(r.LINE.v), ",")
        third == strip(fields[3])
        fourth == strip(fields[4])
    IN IF IsIsin(fourth) THEN third ELSE third \o " - " \o fourth

\* the same, with field 3 tested for its first two letters only
ShareClassByPrefix(r) ==
    LET fields == split(strip_quotes(r.LINE.v), ",")
        third == strip(fields[3])
        fourth == strip(fields[4])
    IN IF startswith(fourth, "IE") THEN third ELSE third \o " - " \o fourth

\* C13: the share class of a row is fields[2] alone when fields[3] is an
\* ISIN, and "fields[2] - fields[3]" when fields[3] is not an ISIN
C13_ShareClassByIsin ==
    PermDone =>
        \A i \in 1..Len(df_permalink) :
            df_permalink[i].SHARE_CLASS.v = ShareClassByIsin(df_permalink[i])

\* the share class is fields[2] alone when fields[3] begins with IE, and
\* "fields[2] - fields[3]" otherwise
C13_ShareClassByPrefix ==
    PermDone =>
        \A i \in 1..Len(df_permalink) :
            df_permalink[i].SHARE_CLASS.v = ShareClassByPrefix(df_permalink[i])

Extracted == pc = "extracted"

\* the primary backend's text lacks the risk-scale header
LacksHeader == parts_1(response.text) = <<>>

\* a value the primary backend found is the value returned
PrimaryKept ==
    notna(primary_srri(response.text)) =>
        srri_value = primary_srri(response.text)

\* C14: when the primary text lacks the risk-scale header and the fallback
\* text contains "Category N reflects", the KIID_SRRI is N; a value found by
\* the primary backend is not overwritten by the fallback
C14_FallbackCategory ==
    Extracted /\ response.ok =>
        /\ LacksHeader /\ notna(search_category(response.full_text)) =>
              srri_value = search_category(response.full_text)
        /\ PrimaryKept

\* the same, for a fallback text in which no "risk" is followed on its line
\* by a digit from 1 to 7
C14_FallbackCategoryWithoutRisk ==
    Extracted /\ response.ok =>
        /\ (/\ LacksHeader
            /\ notna(search_category(response.full_text))
            /\ isna(search_risk(response.full_text)))
              => srri_value = search_category(response.full_text)
        /\ PrimaryKept

\* the weekly cells of a data row by ascending week number
ByWeek(q) ==
    [k \in 1..Len(q.cells) |->
        q.cells[CHOOSE i \in 1..Len(q.cells) : file_monitoring.weeks[i] = k]]

\* the non-missing weekly values of a data row by ascending week number
ChronologicalHistory(q) ==
    LET cells == ByWeek(q)
        idx == NonMissing(cells, 1)
    IN [k \in 1..Len(idx) |-> cells[idx[k]].v]

\* the week number of the k-th non-missing value in that order
ChronologicalWeek(q, k) == NonMissing(ByWeek(q), 1)[k]

\* C15: the stability flags, LATEST_SRRI, PREVIOUS_SRRI and WEEK_OF_CHANGE
\* of every output row are those of its weekly values taken by ascending
\* week number, whatever the order of the week columns in the sheet
C15_ChronologicalOrder ==
    MonDone =>
        \A r \in OutputRows :
            LET q == InputRowOf(r)
                v == ChronologicalHistory(q)
                n == Len(v)
                D == {i \in 1..n : v[i] # v[n]}
                j == CHOOSE i \in D : \A k \in D : k <= i
            IN /\ r.ANY_16_WEEKS_STABLE.v
                    <=> (\E i \in 1..(n - 15) : Uniform16(v, i))
               /\ r.LAST_16_WEEKS_STABLE.v
                    <=> (n >= 16 /\ Uniform16(v, n - 15))
               /\ r.LATEST_SRRI = Num(v[n])
               /\ IF D # {}
                  THEN /\ r.PREVIOUS_SRRI = Num(v[j])
                       /\ r.WEEK_OF_CHANGE
                             = Str("Week " \o ToString(ChronologicalWeek(q, j + 1)))
                  ELSE r.PREVIOUS_SRRI = r.LATEST_SRRI

\* the week columns of the sheet ascend from left to right
AscendingSheet ==
    \A i \in 1..Len(file_monitoring.weeks) : file_monitoring.weeks[i] = i

\* the same for a sheet whose week columns ascend from left to right
C15_ChronologicalWhenAscending ==
    MonDone /\ AscendingSheet =>
        \A r \in OutputRows :
            /\ ChronologicalHistory(InputRowOf(r)) = History(InputRowOf(r))
            /\ ChangeInfoHolds(r, IsNoneText)

====
